---- MODULE Spec2Model ----
(***************************************************************************)
(* BorderlandsGOTYEnhancedFix: DllMain, the worker thread's Main (readYml,  *)
(* Sleep, resolutionFix, fovFix) and the four hook callbacks of            *)
(* src/src/main.cpp as a state machine.                                    *)
(*                                                                         *)
(* The process image is a byte sequence `image` loaded at BaseModule; the  *)
(* static data the patch loop overwrites is the byte map `mem`.  Every     *)
(* call the worker makes on a collaborator (Utils::patternScan,            *)
(* safetyhook::create_mid, Utils::patch) is appended to `calls`, every     *)
(* LOG line about a pattern, a hook or a patch to `log`.                   *)
(***************************************************************************)
EXTENDS Integers, Sequences, FiniteSets, TLC

VARIABLES
    pc,       \* position of the worker thread in Main
    config,   \* the parsed BorderlandsGOTYEnhancedFix.yml (global `config`)
    desktop,  \* what Utils::GetDesktopDimensions answers: <<width, height>>
    yml,      \* the global `yml` the fixes and the hook callbacks read
    image,    \* bytes of the loaded module, image[i] at BaseModule + i - 1
    mem,      \* static data bytes at the patch addresses
    calls,    \* collaborator calls made so far, in order
    log,      \* LOG lines written so far, in order
    workers,  \* threads DllMain has created to run Main
    fired,    \* the pattern whose hook callback ran last, NoHook if none has
    entry,    \* the register snapshot that callback was entered with
    ctx       \* the register snapshot that callback returned

hostVars == <<workers, fired, entry, ctx>>
vars == <<pc, config, desktop, yml, image, mem, calls, log,
          workers, fired, entry, ctx>>

---------------------------------------------------------------------------
(* Bounds of the model *)

\* copies of a code fragment laid out in the image: 1..MaxCopies
MaxCopies == 2
\* collaborator calls (hook installations, patch writes) that may fail in a run
MaxFailures == 1

---------------------------------------------------------------------------
(* Program constants *)

\* HMODULE baseModule = GetModuleHandle(NULL): a non-null load address
BaseModule == 4194304

\* the "??" token of a pattern string
WILD == -1

\* "44 8B ?? 41 8D ?? ?? 48 8B ?? ?? ?? FF 15 ?? ?? ?? ??"
patternFind0 ==
    <<68, 139, WILD, 65, 141, WILD, WILD, 72, 139, WILD, WILD, WILD,
      255, 21, WILD, WILD, WILD, WILD>>
hookOffset0 == 0
\* "FF 15 ?? ?? ?? ?? 44 8B ?? 45 8B ??"
patternFind1 ==
    <<255, 21, WILD, WILD, WILD, WILD, 68, 139, WILD, 69, 139, WILD>>
hookOffset1 == 6
\* "CC    8B 81 A0 00 00 00    C3    CC"
patternFind2 == <<204, 139, 129, 160, 0, 0, 0, 195, 204>>
hookOffset2 == 7
\* "F3 0F 11 ?? ?? ?? ?? ?? 8B ?? ?? ?? ?? ?? 89 ?? ?? ?? ?? ?? 48 83 ?? ?? 5B C3"
patternFind ==
    <<243, 15, 17, WILD, WILD, WILD, WILD, WILD, 139, WILD, WILD, WILD,
      WILD, WILD, 137, WILD, WILD, WILD, WILD, WILD, 72, 131, WILD, WILD,
      91, 195>>
hookOffset == 0

\* the four patterns by number: 0, 1, 2 of resolutionFix, 3 of fovFix
PatternIds == 0..3
ResolutionPatterns == 0..2
FovPattern == 3

Pattern(k) ==
    CASE k = 0 -> patternFind0
      [] k = 1 -> patternFind1
      [] k = 2 -> patternFind2
      [] k = 3 -> patternFind

HookOffset(k) ==
    CASE k = 0 -> hookOffset0
      [] k = 1 -> hookOffset1
      [] k = 2 -> hookOffset2
      [] k = 3 -> hookOffset

\* resAddrPatch with the second address 4 bytes after the first
resAddrPatch_overlap ==
    <<BaseModule + 39735456, BaseModule + 39735460, BaseModule + 39738472,
      BaseModule + 39739808, BaseModule + 39741144, BaseModule + 39741812,
      BaseModule + 39742480>>
\* baseModule + 0x25E50A0, 0x25E5730, 0x25E5C68, 0x25E61A0, 0x25E66D8,
\* 0x25E6974, 0x25E6C10
resAddrPatch ==
    <<BaseModule + 39735456, BaseModule + 39737136, BaseModule + 39738472,
      BaseModule + 39739808, BaseModule + 39741144, BaseModule + 39741812,
      BaseModule + 39742480>>

---------------------------------------------------------------------------
(* The process image: code fragments of the game, as the comments of       *)
(* resolutionFix and fovFix quote them, one instance per pattern.          *)

\* mov r15d,eax ; lea ecx,[r14+1] ; mov rcx,[rax+rcx*8] ; call [wtol]
Code0 == <<68, 139, 248, 65, 141, 78, 1, 72, 139, 12, 200, 144,
           255, 21, 206, 121, 15, 1>>
\* call [wtol] ; mov r12d,eax ; mov r8d,r15d
Code1 == <<255, 21, 108, 121, 15, 1, 68, 139, 224, 69, 139, 199>>
\* int3 ; mov eax,[rcx+A0] ; ret ; int3
Code2 == <<204, 139, 129, 160, 0, 0, 0, 195, 204>>
\* movss [rbx+F48],xmm0 ; mov ecx,[rax+3D8] ; mov [rbx+F4C],ecx ;
\* add rsp,20 ; pop rbx ; ret
Code3 == <<243, 15, 17, 131, 72, 15, 0, 0, 139, 136, 216, 3, 0, 0,
           137, 139, 76, 15, 0, 0, 72, 131, 196, 32, 91, 195>>
\* nop between the fragments
Filler == <<144>>

Code(k) ==
    CASE k = 0 -> Code0
      [] k = 1 -> Code1
      [] k = 2 -> Code2
      [] k = 3 -> Code3

RECURSIVE Repeat(_, _)
Repeat(block, n) == IF n = 0 THEN <<>> ELSE block \o Filler \o Repeat(block, n - 1)

\* the image with n instances of the code of each pattern in `present`
Image(present, n) ==
    LET copies(k) == IF k \in present THEN n ELSE 0
    IN  Filler \o Repeat(Code(3), copies(3)) \o Repeat(Code(2), copies(2))
               \o Repeat(Code(1), copies(1)) \o Repeat(Code(0), copies(0))

Images == { Image(present, n) : present \in SUBSET PatternIds, n \in 1..MaxCopies }

---------------------------------------------------------------------------
(* Utils (utils.hpp is not part of the sources at hand) *)

\* the pattern matches the bytes of the image that start at index i
Matches(img, pat, i) ==
    \A j \in 1..Len(pat) : pat[j] = WILD \/ img[i + j - 1] = pat[j]

\* Utils::patternScan: the addresses of all matches, ascending; a region
\* shorter than the pattern has none
patternScan(img, pat) ==
    LET last == Len(img) - Len(pat) + 1
        offs == SelectSeq([i \in 1..last |-> i], LAMBDA i : Matches(img, pat, i))
    IN  [n \in 1..Len(offs) |-> BaseModule + offs[n] - 1]

\* byte k (0 = lowest) of a non-negative 32-bit int as it lies in memory
ByteOf(v, k) == (v \div (256 ^ k)) % 256

\* Utils::bytesToString: the bytes at a pointer as two-digit hex tokens
bytesToString(v, size) ==
    [k \in 1..size |-> <<ByteOf(v, k - 1) \div 16, ByteOf(v, k - 1) % 16>>]

\* Utils::patch: parse the hex tokens and write them from `address` on
patch(m, address, str) ==
    [a \in DOMAIN m |->
        IF a >= address /\ a < address + Len(str)
        THEN str[a - address + 1][1] * 16 + str[a - address + 1][2]
        ELSE m[a]]

\* the little-endian 32-bit value stored at address a
ReadInt(m, a) ==
    m[a] + 256 * m[a + 1] + 65536 * m[a + 2] + 16777216 * m[a + 3]

---------------------------------------------------------------------------
(* Configuration *)

RECURSIVE GCD(_, _)
GCD(a, b) == IF b = 0 THEN a ELSE GCD(b, a % b)

\* (float)w / (float)h as the fraction in lowest terms; h = 0 gives
\* <<1, 0>> (inf) or <<0, 0>> (NaN)
Ratio(w, h) ==
    IF h = 0 THEN <<IF w = 0 THEN 0 ELSE 1, 0>>
    ELSE <<w \div GCD(w, h), h \div GCD(w, h)>>

ConfigWidths == {0, 3440}
ConfigHeights == {0, 1440}
Desktops == {<<2560, 1080>>}
FovValues == {90}

Configs ==
    [masterEnable : BOOLEAN, width : ConfigWidths, height : ConfigHeights,
     fovEnable : BOOLEAN, fovValue : FovValues]

\* yml_t yml: a global, zero-initialised
ymlZero ==
    [masterEnable |-> FALSE, width |-> 0, height |-> 0,
     aspectRatio |-> <<0, 1>>, fovEnable |-> FALSE, fovValue |-> 0]

\* readYml with aspectRatio computed before the 0 -> desktop resolution
readYml_ratioFirst(cfg, dims) ==
    LET useDesktop == cfg.width = 0 \/ cfg.height = 0
    IN  [masterEnable |-> cfg.masterEnable,
         width |-> IF useDesktop THEN dims[1] ELSE cfg.width,
         height |-> IF useDesktop THEN dims[2] ELSE cfg.height,
         aspectRatio |-> Ratio(cfg.width, cfg.height),
         fovEnable |-> cfg.fovEnable,
         fovValue |-> cfg.fovValue]
\* readYml: the value of `yml` it leaves
readYml(cfg, dims) ==
    LET useDesktop == cfg.width = 0 \/ cfg.height = 0
        w == IF useDesktop THEN dims[1] ELSE cfg.width
        h == IF useDesktop THEN dims[2] ELSE cfg.height
    IN  [masterEnable |-> cfg.masterEnable,
         width |-> w,
         height |-> h,
         aspectRatio |-> Ratio(w, h),
         fovEnable |-> cfg.fovEnable,
         fovValue |-> cfg.fovValue]

---------------------------------------------------------------------------
(* Main: the order of its steps.  resolutionFix is four `if (enable)`      *)
(* blocks (pattern 0, pattern 1, pattern 2, the patch loop).               *)

\* Main with Sleep called before readYml
ProgramOrder_sleepFirst ==
    <<"Sleep", "readYml", "resolutionFix0", "resolutionFix1",
      "resolutionFix2", "resolutionPatch", "fovFix", "done">>
\* logInit(); readYml(); Sleep(5000); resolutionFix(); fovFix(); return
ProgramOrder ==
    <<"readYml", "Sleep", "resolutionFix0", "resolutionFix1",
      "resolutionFix2", "resolutionPatch", "fovFix", "done">>

PositionOf(p) == CHOOSE n \in 1..Len(ProgramOrder) : ProgramOrder[n] = p
After(p) == ProgramOrder[PositionOf(p) + 1]

\* bool enable = yml.masterEnable, ignoring the kill switch
resolutionEnable_always(y) == TRUE
\* bool enable = yml.masterEnable, coupled to the FOV switch
resolutionEnable_withFov(y) == y.masterEnable /\ y.fovEnable
\* resolutionFix: bool enable = yml.masterEnable
resolutionEnable(y) == y.masterEnable

\* fovFix: bool enable = yml.masterEnable & yml.fix.fov.enable
fovFixEnable(y) == y.masterEnable /\ y.fovEnable

---------------------------------------------------------------------------
(* Collaborator calls and LOG lines *)

ScanCall(k) == [op |-> "patternScan", pat |-> k, addr |-> BaseModule, ok |-> TRUE]
InstallCall(k, a, ok) == [op |-> "create_mid", pat |-> k, addr |-> a, ok |-> ok]
PatchCall(i, a, ok) == [op |-> "patch", pat |-> i, addr |-> a, ok |-> ok]
SleepCall == [op |-> "Sleep", pat |-> 0, addr |-> 0, ok |-> TRUE]

FoundLine(k, rel) == [kind |-> "Found", pat |-> k, addr |-> rel]
NotFoundLine(k) == [kind |-> "Did not find", pat |-> k, addr |-> 0]
HookedLine(k, rel) == [kind |-> "Hooked", pat |-> k, addr |-> rel]
PatchedLine(i, a) == [kind |-> "Patched", pat |-> i, addr |-> a]

\* calls of the run so far that failed
Failures(cs) == Cardinality({n \in 1..Len(cs) : ~cs[n].ok})

---------------------------------------------------------------------------
(* addr[0] of a std::vector that may be empty.  Reading element 0 of an    *)
(* empty vector is undefined: the read faults, or yields a null, or yields *)
(* whatever lies there.                                                    *)

UBOutcomes == {"fault", "null", "garbage"}
\* BaseModule + 0x0BADF00D: what a stray read may yield
Garbage == BaseModule + 195948557

\* the hit taken from the last match
FirstHit_last(addr, ub) ==
    IF addr # <<>> THEN addr[Len(addr)]
    ELSE IF ub = "null" THEN 0 ELSE Garbage
\* uint8_t* hit = (uint8_t*)addr[0]
FirstHit(addr, ub) ==
    IF addr # <<>> THEN addr[1]
    ELSE IF ub = "null" THEN 0 ELSE Garbage

\* one `if (enable)` block: scan for pattern k, read addr[0], hook or report
ScanAndHook(k) ==
    LET addr == patternScan(image, Pattern(k))
        scanned == Append(calls, ScanCall(k))
    IN  \E ub \in UBOutcomes, ok \in BOOLEAN :
            LET hit == FirstHit(addr, ub)
                rel == hit - BaseModule
            IN  IF addr = <<>> /\ ub = "fault"
                THEN /\ pc' = "crashed"
                     /\ calls' = scanned
                     /\ log' = log
                ELSE /\ pc' = After(pc)
                     /\ IF hit # 0
                        THEN /\ ok \/ Failures(calls) < MaxFailures
                             /\ calls' = Append(scanned,
                                    InstallCall(k, hit + HookOffset(k), ok))
                             /\ log' = log \o <<FoundLine(k, rel),
                                    HookedLine(k, rel + HookOffset(k))>>
                        ELSE /\ calls' = scanned
                             /\ log' = Append(log, NotFoundLine(k))

\* the patch loop from index i on: the memory it leaves when the writes at
\* the indices in `failing` fail
RECURSIVE PatchedMem(_, _, _, _)
PatchedMem(m, i, str, failing) ==
    IF i > Len(resAddrPatch) THEN m
    ELSE PatchedMem(IF i \in failing THEN m ELSE patch(m, resAddrPatch[i], str),
                    i + 1, str, failing)

PatchCalls(failing) ==
    [i \in 1..Len(resAddrPatch) |-> PatchCall(i, resAddrPatch[i], i \notin failing)]
PatchLines == [i \in 1..Len(resAddrPatch) |-> PatchedLine(i, resAddrPatch[i])]

\* the static data the patch loop touches: 8 bytes at each address
DataAddrs == UNION { {resAddrPatch[i] + d : d \in 0..7} : i \in 1..Len(resAddrPatch) }

\* what the game itself stored there: 1280 x 720
GameMem ==
    PatchedMem([a \in DataAddrs |-> 0], 1,
               bytesToString(1280, 4) \o bytesToString(720, 4), {})

---------------------------------------------------------------------------
(* float arithmetic of the FOV callback, in fixed point: a float is held   *)
(* as a multiple of 1/One; an angle in degrees, as a register lane holds   *)
(* it, as a multiple of 1/100 degree.                                      *)

One == 100 * 100
\* std::numbers::pi_v<float>
PiFix == 31416

FMul(a, b) == (a * b) \div One
FDiv(a, b) == (a * One) \div b

\* sine and cosine of r radians, 0 <= r < pi/2, by their power series
sinFix(r) ==
    LET r2 == FMul(r, r)
        t3 == FMul(r, r2) \div 6
        t5 == FMul(t3, r2) \div 20
        t7 == FMul(t5, r2) \div 42
        t9 == FMul(t7, r2) \div 72
    IN  r - t3 + t5 - t7 + t9
cosFix(r) ==
    LET r2 == FMul(r, r)
        t2 == r2 \div 2
        t4 == FMul(t2, r2) \div 12
        t6 == FMul(t4, r2) \div 30
        t8 == FMul(t6, r2) \div 56
    IN  One - t2 + t4 - t6 + t8
tanf(r) == FDiv(sinFix(r), cosFix(r))

\* arctangent of y, 0 <= y <= 1, by Euler's series
\*   atan y = (y / (1 + y^2)) * SUM_n c_n z^n,  z = y^2 / (1 + y^2),
\*   c_0 = 1, c_n = c_(n-1) * 2n / (2n + 1)
RECURSIVE EulerSum(_, _, _)
EulerSum(term, z, n) ==
    IF term = 0 THEN 0
    ELSE term + EulerSum((FMul(term, z) * (2 * n)) \div (2 * n + 1), z, n + 1)
atanUnit(y) ==
    LET d == One + FMul(y, y)
    IN  EulerSum(FDiv(y, d), FDiv(FMul(y, y), d), 1)
\* arctangent of y >= 0, in radians
atanf(y) ==
    IF y <= One THEN atanUnit(y) ELSE PiFix \div 2 - atanUnit(FDiv(One, y))

\* float nativeAspectRatio = 16.0f / 9.0f
nativeAspectRatio == FDiv(16, 9)

---------------------------------------------------------------------------
(* SafetyHookContext and the four hook callbacks.  Of the registers of the *)
(* context the model keeps rax, one more general register, the flags and   *)
(* the lanes 0 and 1 of xmm0.                                              *)

\* what the hooked instruction may be reached with
EntrySnapshots ==
    { [rax |-> 1280, rcx |-> 7, rflags |-> 582, xmm0 |-> <<12000, 0>>],
      [rax |-> 720, rcx |-> 9, rflags |-> 514, xmm0 |-> <<6000, 250>>] }
IdleSnapshot == [rax |-> 0, rcx |-> 0, rflags |-> 0, xmm0 |-> <<0, 0>>]

\* the value of `fired` while no callback has run
NoHook == FovPattern + 1

\* the FOV value with the aspect ratio applied to the angle, outside atanf
newFov_ratioOutside(y) ==
    LET half == (y.fovValue * PiFix) \div 360
        ar == FDiv(y.aspectRatio[1], y.aspectRatio[2])
        angle == FMul(atanf(FDiv(tanf(half), nativeAspectRatio)), ar)
    IN  (angle * 36000) \div PiFix
\* float newFov = atanf((tanf(yml.fix.fov.value * pi / 360.0f)
\*     / nativeAspectRatio) * yml.resolution.aspectRatio) * 360.0f / pi
newFov(y) ==
    LET half == (y.fovValue * PiFix) \div 360
        ar == FDiv(y.aspectRatio[1], y.aspectRatio[2])
        angle == atanf(FMul(FDiv(tanf(half), nativeAspectRatio), ar))
    IN  (angle * 36000) \div PiFix

\* pattern 0: ctx.rax = yml.resolution.width
widthCallback(c, y) == [c EXCEPT !.rax = y.width]
\* pattern 1 given the callback of pattern 0
heightCallback_width(c, y) == [c EXCEPT !.rax = y.width]
\* pattern 1: ctx.rax = yml.resolution.height
heightCallback(c, y) == [c EXCEPT !.rax = y.height]
\* pattern 2: ctx.rax = yml.resolution.height + 0x1
heightPlusOneCallback(c, y) == [c EXCEPT !.rax = y.height + 1]
\* the FOV callback, leaving its intermediate in lane 1 as well
fovCallback_clobber(c, y) ==
    [c EXCEPT !.xmm0 = <<(newFov(y) * c.xmm0[1]) \div 12000, newFov(y)>>]
\* fovFix: newFov *= (ctx.xmm0.f32[0] / 120.0f); ctx.xmm0.f32[0] = newFov
fovCallback(c, y) ==
    [c EXCEPT !.xmm0[1] = (newFov(y) * c.xmm0[1]) \div 12000]

\* the callback create_mid was given for pattern k
Callback(k, c, y) ==
    CASE k = 0 -> widthCallback(c, y)
      [] k = 1 -> heightCallback(c, y)
      [] k = 2 -> heightPlusOneCallback(c, y)
      [] k = 3 -> fovCallback(c, y)

\* a hook for pattern k is in place, at an instruction of the module
Installed(k) ==
    \E n \in 1..Len(calls) :
        /\ calls[n].op = "create_mid" /\ calls[n].pat = k /\ calls[n].ok
        /\ calls[n].addr >= BaseModule
        /\ calls[n].addr < BaseModule + Len(image)

---------------------------------------------------------------------------
(* DllMain *)

\* threads DllMain may create in a run of the model
MaxWorkers == 2

Reasons ==
    {"DLL_PROCESS_ATTACH", "DLL_THREAD_ATTACH", "DLL_THREAD_DETACH",
     "DLL_PROCESS_DETACH"}

\* the switch with the thread created on every attach
CreatesWorker_everyAttach(reason) ==
    reason \in {"DLL_PROCESS_ATTACH", "DLL_THREAD_ATTACH"}
\* switch (ul_reason_for_call): the case that calls CreateThread
CreatesWorker(reason) == reason = "DLL_PROCESS_ATTACH"

\* the image the comments of resolutionFix quote: call [wtol] right before
\* the code of pattern 0, whose own call [wtol] starts the code of pattern 1
QuotedImage ==
    <<255, 21, 206, 121, 15, 1>> \o Code0 \o <<68, 139, 224, 69, 139, 199>>
        \o Filler \o Code2 \o Filler \o Code3
\* images of a host: every pattern present, one pattern absent, the quoted one
HostImages ==
    { Image(PatternIds, n) : n \in 1..MaxCopies }
    \cup { Image(PatternIds \ {k}, 1) : k \in PatternIds }
    \cup {QuotedImage}
\* configurations of a host: a resolution given in full or left to the desktop
HostConfigs == { c \in Configs : (c.width = 0) <=> (c.height = 0) }

---------------------------------------------------------------------------
(* The state machine *)

Init ==
    /\ pc = ProgramOrder[1]
    /\ config \in Configs
    /\ desktop \in Desktops
    /\ yml = ymlZero
    /\ image \in Images
    /\ mem = GameMem
    /\ calls = <<>>
    /\ log = <<>>
    /\ workers = 1
    /\ fired = NoHook
    /\ entry = IdleSnapshot
    /\ ctx = IdleSnapshot

ReadYml ==
    /\ pc = "readYml"
    /\ yml' = readYml(config, desktop)
    /\ pc' = After(pc)
    /\ UNCHANGED <<config, desktop, image, mem, calls, log>>
    /\ UNCHANGED hostVars

Sleep ==
    /\ pc = "Sleep"
    /\ calls' = Append(calls, SleepCall)
    /\ pc' = After(pc)
    /\ UNCHANGED <<config, desktop, yml, image, mem, log>>
    /\ UNCHANGED hostVars

ResolutionFix0 ==
    /\ pc = "resolutionFix0"
    /\ IF resolutionEnable(yml) THEN ScanAndHook(0)
       ELSE pc' = After(pc) /\ UNCHANGED <<calls, log>>
    /\ UNCHANGED <<config, desktop, yml, image, mem>>
    /\ UNCHANGED hostVars

ResolutionFix1 ==
    /\ pc = "resolutionFix1"
    /\ IF resolutionEnable(yml) THEN ScanAndHook(1)
       ELSE pc' = After(pc) /\ UNCHANGED <<calls, log>>
    /\ UNCHANGED <<config, desktop, yml, image, mem>>
    /\ UNCHANGED hostVars

ResolutionFix2 ==
    /\ pc = "resolutionFix2"
    /\ IF resolutionEnable(yml) THEN ScanAndHook(2)
       ELSE pc' = After(pc) /\ UNCHANGED <<calls, log>>
    /\ UNCHANGED <<config, desktop, yml, image, mem>>
    /\ UNCHANGED hostVars

ResolutionPatch ==
    /\ pc = "resolutionPatch"
    /\ pc' = After(pc)
    /\ IF resolutionEnable(yml)
       THEN \E failing \in SUBSET (1..Len(resAddrPatch)) :
              LET widthString == bytesToString(yml.width, 4)
                  heightString == bytesToString(yml.height, 4)
                  resString == widthString \o heightString
              IN  /\ Failures(calls) + Cardinality(failing) <= MaxFailures
                  /\ mem' = PatchedMem(mem, 1, resString, failing)
                  /\ calls' = calls \o PatchCalls(failing)
                  /\ log' = log \o PatchLines
       ELSE UNCHANGED <<mem, calls, log>>
    /\ UNCHANGED <<config, desktop, yml, image>>
    /\ UNCHANGED hostVars

FovFix ==
    /\ pc = "fovFix"
    /\ IF fovFixEnable(yml) THEN ScanAndHook(FovPattern)
       ELSE pc' = After(pc) /\ UNCHANGED <<calls, log>>
    /\ UNCHANGED <<config, desktop, yml, image, mem>>
    /\ UNCHANGED hostVars

Next ==
    \/ ReadYml
    \/ Sleep
    \/ ResolutionFix0
    \/ ResolutionFix1
    \/ ResolutionFix2
    \/ ResolutionPatch
    \/ FovFix

Spec == Init /\ [][Next]_vars

---------------------------------------------------------------------------
(* The process: DllMain calls of the loader, the worker, and the host's    *)
(* threads running into the installed hooks.                               *)

InitHost ==
    /\ pc = "unloaded"
    /\ config \in HostConfigs
    /\ desktop \in Desktops
    /\ yml = ymlZero
    /\ image \in HostImages
    /\ mem = GameMem
    /\ calls = <<>>
    /\ log = <<>>
    /\ workers = 0
    /\ fired = NoHook
    /\ entry = IdleSnapshot
    /\ ctx = IdleSnapshot

\* DllMain(hModule, ul_reason_for_call, lpReserved); the loader calls it with
\* DLL_PROCESS_ATTACH first and once
DllMain(reason) ==
    /\ (reason = "DLL_PROCESS_ATTACH") <=> (pc = "unloaded")
    /\ IF CreatesWorker(reason)
       THEN \E mainHandle \in BOOLEAN :
              IF mainHandle
              THEN /\ workers < MaxWorkers
                   /\ workers' = workers + 1
                   /\ pc' = IF pc = "unloaded" THEN ProgramOrder[1] ELSE pc
              ELSE /\ workers' = workers
                   /\ pc' = IF pc = "unloaded" THEN "noThread" ELSE pc
       ELSE UNCHANGED <<pc, workers>>
    /\ UNCHANGED <<config, desktop, yml, image, mem, calls, log, fired, entry, ctx>>

DllMainCall == \E reason \in Reasons : DllMain(reason)

\* a host thread reaches the hooked instruction of pattern k: the trampoline
\* hands the callback the registers as they are and resumes with what it left
HookInvoke ==
    /\ pc # "crashed"
    /\ \E k \in PatternIds, e \in EntrySnapshots :
          /\ Installed(k)
          /\ fired' = k
          /\ entry' = e
          /\ ctx' = Callback(k, e, yml)
    /\ UNCHANGED <<pc, config, desktop, yml, image, mem, calls, log, workers>>

NextHost ==
    \/ DllMainCall
    \/ HookInvoke
    \/ Next

SpecHost == InitHost /\ [][NextHost]_vars

---------------------------------------------------------------------------
(* Vocabulary of the properties *)

\* the calls of kind op made for pattern (or patch index) k, in order
CallsOf(op, k) == SelectSeq(calls, LAMBDA c : c.op = op /\ c.pat = k)
Called(op, k) == CallsOf(op, k) # <<>>
LinesOf(kind, k) == SelectSeq(log, LAMBDA l : l.kind = kind /\ l.pat = k)

\* the MatchSet of pattern k as a set of addresses, straight from the bytes
MatchAddrs(k) ==
    { BaseModule + i - 1 : i \in
        { i \in 1..Len(image) :
            /\ i + Len(Pattern(k)) - 1 <= Len(image)
            /\ Matches(image, Pattern(k), i) } }
Lowest(S) == CHOOSE a \in S : \A b \in S : a <= b

\* the offset the specification fixes for each pattern
FixedOffset(k) == CASE k = 0 -> 0 [] k = 1 -> 6 [] k = 2 -> 7 [] k = 3 -> 0

\* the seven patch addresses as module-relative offsets
PatchOffsets ==
    {39735456, 39737136, 39738472, 39739808, 39741144, 39741812, 39742480}

Terminated == pc \in {"done", "crashed"}
FixCalls == {"patternScan", "create_mid", "patch"}

---------------------------------------------------------------------------
(* C1: with masterEnable false a run of Main makes no pattern scan, installs
   no hook and writes no static patch, whatever the resolution and the FOV
   switch are: no such call is ever recorded and the static data keeps the
   game's own bytes. *)
C1_KillSwitch ==
    ~config.masterEnable =>
        /\ \A n \in 1..Len(calls) : calls[n].op \notin FixCalls
        /\ mem = GameMem
        /\ log = <<>>

C1_Witness ==
    /\ pc = "done"
    /\ ~config.masterEnable
    /\ config.fovEnable
    /\ config.width # 0
    /\ \E k \in PatternIds : MatchAddrs(k) # {}

(* C2: for each pattern whose block ran and whose scan returned an empty
   MatchSet, "Did not find" is logged for it, no hook is installed for it,
   and the run goes on without a fault. *)
C2_EmptyMatchSetSkipped ==
    /\ pc # "crashed"
    /\ \A k \in PatternIds :
          Called("patternScan", k) /\ MatchAddrs(k) = {} =>
              /\ LinesOf("Did not find", k) # <<>>
              /\ ~Called("create_mid", k)

(* C3: for each pattern whose scan returned a non-empty MatchSet, exactly one
   hook installation is made for it, at the lowest matching address plus the
   pattern's fixed offset (0, 6, 7, 0). *)
C3_FirstMatchHooked ==
    \A k \in PatternIds :
        Called("patternScan", k) =>
            LET matchSet == MatchAddrs(k)
                installs == CallsOf("create_mid", k)
            IN  matchSet # {} =>
                    /\ Len(installs) = 1
                    /\ installs[1].addr = Lowest(matchSet) + FixedOffset(k)

C3_Witness ==
    /\ pc = "done"
    /\ \A k \in PatternIds : Cardinality(MatchAddrs(k)) >= 2
    /\ \A k \in PatternIds :
          /\ Called("create_mid", k)
          /\ CallsOf("create_mid", k)[1].ok

(* C4: with masterEnable true, when the worker has ended, every enabled
   pattern was scanned, every found pattern got its hook installation and
   all seven patch writes were attempted, whatever was found or not. *)
C4_FixesIndependent ==
    Terminated /\ yml.masterEnable =>
        /\ \A k \in ResolutionPatterns : Called("patternScan", k)
        /\ yml.fovEnable => Called("patternScan", FovPattern)
        /\ \A k \in PatternIds :
              Called("patternScan", k) /\ MatchAddrs(k) # {} =>
                  Called("create_mid", k)
        /\ \A i \in 1..7 : Called("patch", i)

(* C5: a "Hooked" line for a pattern is written only if the installation of
   that hook succeeded. *)
C5_HookedOnlyIfInstalled ==
    \A n \in 1..Len(log) :
        log[n].kind = "Hooked" =>
            \E m \in 1..Len(calls) :
                /\ calls[m].op = "create_mid"
                /\ calls[m].pat = log[n].pat
                /\ calls[m].ok

(* C6: in the patch loop all seven writes are attempted whether or not one
   fails, and a "Patched" line for an address is written only if the write
   at that address succeeded. *)
C6_PatchedOnlyIfWritten ==
    /\ Called("patch", 1) => \A i \in 1..7 : Len(CallsOf("patch", i)) = 1
    /\ \A n \in 1..Len(log) :
          log[n].kind = "Patched" =>
              \E m \in 1..Len(calls) :
                  /\ calls[m].op = "patch"
                  /\ calls[m].addr = log[n].addr
                  /\ calls[m].ok

(* C7: once the patch loop has run with every write succeeding, each of the
   seven patch addresses A holds the configured width in the 4 bytes at A
   and the configured height in the 4 bytes at A + 4. *)
C7_PatchedValues ==
    (/\ Called("patch", 1)
     /\ \A n \in 1..Len(calls) : calls[n].op = "patch" => calls[n].ok)
    => \A i \in 1..Len(resAddrPatch) :
          /\ ReadInt(mem, resAddrPatch[i]) = yml.width
          /\ ReadInt(mem, resAddrPatch[i] + 4) = yml.height

C7_Witness ==
    /\ pc = "done"
    /\ \A i \in 1..7 : Called("patch", i) /\ CallsOf("patch", i)[1].ok
    /\ yml.width = 3440
    /\ yml.height = 1440
    /\ mem # GameMem
    /\ { resAddrPatch[i] - BaseModule : i \in 1..Len(resAddrPatch) } = PatchOffsets
    /\ \E k \in ResolutionPatterns : MatchAddrs(k) = {}
    /\ \E k \in ResolutionPatterns : MatchAddrs(k) # {}

(* C8: after readYml, if the configured width or height is 0 then width and
   height are the display's dimensions, otherwise the configured ones; and
   aspectRatio is the quotient of the resolved width and height. *)
C8_ResolvedResolution ==
    pc # "readYml" =>
        /\ (config.width = 0 \/ config.height = 0) =>
              yml.width = desktop[1] /\ yml.height = desktop[2]
        /\ (config.width # 0 /\ config.height # 0) =>
              yml.width = config.width /\ yml.height = config.height
        /\ yml.aspectRatio[2] # 0
        /\ yml.aspectRatio[1] * yml.height = yml.aspectRatio[2] * yml.width

C8_Witness ==
    /\ pc = "Sleep"
    /\ config.width = 3440
    /\ config.height = 0
    /\ yml.width = 2560
    /\ yml.height = 1080
    /\ yml.aspectRatio = <<64, 27>>

(* C9: the FOV pattern is scanned and hooked only when masterEnable and
   fix.fov.enable are both true; with masterEnable true and fix.fov.enable
   false the resolution fix is applied in full (three scans, a hook
   installation at first match plus offset for each found pattern, seven
   patch writes of width and height) and nothing is done for the FOV
   pattern. *)
C9_FovSwitch ==
    /\ (Called("patternScan", FovPattern) \/ Called("create_mid", FovPattern))
          => config.masterEnable /\ config.fovEnable
    /\ (config.masterEnable /\ ~config.fovEnable /\ pc \in {"fovFix", "done"}) =>
          /\ \A k \in ResolutionPatterns :
                LET matchSet == MatchAddrs(k)
                    installs == CallsOf("create_mid", k)
                IN  /\ Called("patternScan", k)
                    /\ matchSet # {} =>
                          /\ Len(installs) = 1
                          /\ installs[1].addr = Lowest(matchSet) + FixedOffset(k)
          /\ \A i \in 1..7 :
                /\ Called("patch", i)
                /\ CallsOf("patch", i)[1].ok =>
                      /\ ReadInt(mem, resAddrPatch[i]) = yml.width
                      /\ ReadInt(mem, resAddrPatch[i] + 4) = yml.height

C9_Witness ==
    /\ pc = "done"
    /\ config.masterEnable
    /\ ~config.fovEnable
    /\ MatchAddrs(FovPattern) # {}
    /\ \A k \in ResolutionPatterns : Called("create_mid", k)
    /\ \A i \in 1..7 : Called("patch", i)
    /\ ~Called("patternScan", FovPattern)

(* C10: the configuration is read and resolved first, then the delay
   elapses, and only then is any scan, hook installation or patch made; and
   once the delay has started the configuration values are never written
   again. *)
C10_ConfigThenDelayThenFixes ==
    /\ [](calls # <<>> =>
            /\ calls[1].op = "Sleep"
            /\ yml = readYml(config, desktop))
    /\ [][calls # <<>> => yml' = yml]_vars

C10_Witness ==
    /\ pc = "done"
    /\ Len(calls) > 1
    /\ \E k \in PatternIds : Called("create_mid", k)
    /\ Called("patch", 7)
    /\ yml # ymlZero

---------------------------------------------------------------------------
(* Vocabulary of the properties of the callbacks *)

Abs(n) == IF n < 0 THEN 0 - n ELSE n
\* two floats agree to 0.02
FovTolerance == 2 * 100

\* the half angle, in radians, of the FOV the callback left, with the
\* (observed / 120) scaling taken out again
HalfAngleLeft ==
    LET unscaled == (ctx.xmm0[1] * 12000) \div entry.xmm0[1]
    IN  (unscaled * PiFix) \div 36000
HalfAngleConfigured == (yml.fovValue * PiFix) \div 360
TargetAspect == FDiv(yml.width, yml.height)
NativeAspect == FDiv(16, 9)

(* C11 as stated: lane 0 of xmm0 becomes
   atan(tan(fov * pi / 360) / native) * aspect * 360 / pi, times
   (observed / 120).  Solved for the tangent: with g the half angle left
   divided by the aspect ratio, tan(g) * native = tan(fov * pi / 360). *)
C11_AspectOutsideAtan ==
    fired = FovPattern =>
        Abs(FMul(tanf(FDiv(HalfAngleLeft, TargetAspect)), NativeAspect)
            - tanf(HalfAngleConfigured)) <= FovTolerance

(* C11 amended: lane 0 of xmm0 becomes
   atan((tan(fov * pi / 360) / native) * aspect) * 360 / pi, times
   (observed / 120): the aspect ratio multiplies the tangent, inside atan.
   Solved for the tangent: with h the half angle left,
   tan(h) * native = tan(fov * pi / 360) * aspect. *)
C11_AspectInsideAtan ==
    fired = FovPattern =>
        Abs(FMul(tanf(HalfAngleLeft), NativeAspect)
            - FMul(tanf(HalfAngleConfigured), TargetAspect)) <= FovTolerance

\* fov 90 at 2560 x 1080 with 60 observed: 106.26 * 0.5 = 53.13 degrees
C11_Witness ==
    /\ fired = FovPattern
    /\ yml.fovValue = 90
    /\ yml.width = 2560 /\ yml.height = 1080
    /\ entry.xmm0[1] = 6000
    /\ Abs(ctx.xmm0[1] - 5313) <= 15

(* C12: each callback changes one register of the snapshot, rax for the
   three resolution hooks and lane 0 of xmm0 for the FOV hook; every other
   register and the flags are after the callback as they were at entry. *)
C12_FrameOfCallbacks ==
    fired # NoHook =>
        /\ ctx.rcx = entry.rcx
        /\ ctx.rflags = entry.rflags
        /\ ctx.xmm0[2] = entry.xmm0[2]
        /\ fired \in ResolutionPatterns => ctx.xmm0 = entry.xmm0
        /\ fired = FovPattern => ctx.rax = entry.rax

C12_Witness ==
    /\ fired = FovPattern
    /\ ctx.xmm0[1] # entry.xmm0[1]
    /\ entry.xmm0[2] # 0
    /\ ctx.xmm0[2] = entry.xmm0[2]
    /\ ctx.rax = 720

(* C13 as stated: after any of the three resolution callbacks returns, rax
   is the configured width or the configured height. *)
C13_RaxWidthOrHeight ==
    fired \in ResolutionPatterns => ctx.rax \in {yml.width, yml.height}

(* C13 amended: after the callback of pattern 0 returns rax is the
   configured width, after that of pattern 1 the configured height, and
   after that of pattern 2 the configured height plus 1. *)
C13_RaxPerPattern ==
    /\ fired = 0 => ctx.rax = yml.width
    /\ fired = 1 => ctx.rax = yml.height
    /\ fired = 2 => ctx.rax = yml.height + 1

C13_Witness ==
    /\ fired = 2
    /\ entry.rax = 720
    /\ yml.height = 1440
    /\ ctx.rax = 1441

(* C15: the hook targets of two different patterns never coincide: laid
   over one another at their targets the two patterns demand different
   bytes at some position, so no memory content matches both; and in every
   run no two hook installations are at the same address. *)
C15_DistinctTargets ==
    /\ \A k1, k2 \in PatternIds :
          k1 # k2 =>
              \E j1 \in 1..Len(Pattern(k1)), j2 \in 1..Len(Pattern(k2)) :
                  /\ j1 - FixedOffset(k1) = j2 - FixedOffset(k2)
                  /\ Pattern(k1)[j1] # WILD
                  /\ Pattern(k2)[j2] # WILD
                  /\ Pattern(k1)[j1] # Pattern(k2)[j2]
    /\ LET hooks == { n \in 1..Len(calls) :
                          calls[n].op = "create_mid" /\ calls[n].ok }
       IN  \A n1, n2 \in hooks :
               n1 # n2 => calls[n1].addr # calls[n2].addr

(* C16: a worker is created only by a DllMain call for DLL_PROCESS_ATTACH;
   there is never more than one, and every scan, hook installation and
   patch is a step of that worker, taken in the order of Main. *)
C16_OneWorker ==
    /\ [](/\ workers <= 1
          /\ calls # <<>> => workers = 1)
    /\ [][/\ workers' # workers => DllMain("DLL_PROCESS_ATTACH")
          /\ calls' # calls =>
                /\ pc \notin {"unloaded", "noThread", "done", "crashed"}
                /\ pc' \in {After(pc), "crashed"}]_vars

\* a hook fires on a host thread while the worker still has fixes to apply
C16_Witness ==
    /\ workers = 1
    /\ pc = "resolutionFix1"
    /\ fired = 0
    /\ ctx.rax = yml.width
    /\ ~Called("patternScan", 1)

====
